---- MODULE Spec2Model ----
(***************************************************************************)
(* Model of the CodePathfinder workflow orchestrator                       *)
(* (backend/workflows/agent_workflow.py) together with the parts of the    *)
(* four stage agents that decide whether an agent call returns or raises.  *)
(*                                                                         *)
(* Optional[T] values are encoded as tuples: None is <<>>, a present       *)
(* value v is <<v>>.  The external providers (GitHub, Gemini) are the      *)
(* environment: every call to them is a nondeterministic choice.           *)
(***************************************************************************)
EXTENDS Integers, Sequences, FiniteSets, TLC

VARIABLES
    pc,        \* position of the run: "idle", a node name, "END", "done", "raised"
    run,       \* the call being served: kind, start_node, supplied state
    state,     \* the graph's channel values (the run's AgentWorkflowState)
    handed,    \* the dict handed to the last node, as that node left it
    returned,  \* the dict returned by the last node
    log,       \* history: one record per stage attempt of the run
    calls,     \* the /workflow/full requests served on the shared instance
    track      \* the database and the /progress/track request being served

vars == <<pc, run, state, handed, returned, log, calls, track>>

----------------------------------------------------------------------------
(* Bounds of the model *)

MaxRepos == 2
MaxIssues == 2
MaxProfiles == 2    \* rows the user_profiles table may reach
MaxOutcomes == 2    \* rows the contribution_outcomes table may reach

----------------------------------------------------------------------------
(* Optional values and Python truthiness *)

None == <<>>
Some(x) == <<x>>
Get(o) == o[1]

\* `not x` for an Optional[str]: None and "" are falsy
FalsyStr(o) == o = None \/ Get(o) = ""
\* `not x` for an Optional[int]: None and 0 are falsy
FalsyInt(o) == o = None \/ Get(o) = 0

\* str() / f-string rendering of an Optional[str] and an Optional[int]
StrOfName(o) == IF o = None THEN "None" ELSE Get(o)
StrOfInt(o) == IF o = None THEN "None" ELSE ToString(Get(o))

SeqsUpTo(S, n) == UNION {[1..k -> S] : k \in 0..n}

----------------------------------------------------------------------------
(* Value domains *)

Profiles == {"beginner_py", "advanced_js"}

RepoA == [repo_name |-> "org/a", repo_url |-> "https://github.com/org/a"]
RepoB == [repo_name |-> "org/b", repo_url |-> "https://github.com/org/b"]
Repos == {RepoA, RepoB}
RepoLists == SeqsUpTo(Repos, MaxRepos)

IssueNumbers == {0, 7}
Issue(n) == [issue_number |-> n]
Issues == {Issue(n) : n \in IssueNumbers}
IssueLists == SeqsUpTo(Issues, MaxIssues)
\* what the code host lists as open issues of a repository (issue numbers)
GithubIssueLists == SeqsUpTo(IssueNumbers, MaxIssues)

\* fault descriptions of the generative-text provider
ProviderFaults == {"timeout"}

StageNames == <<"scout_repositories", "prepare_onboarding",
                "match_issues", "create_mentoring_plan">>
Stages == {StageNames[i] : i \in 1..4}

\* outcomes of one generate_content call
LLMRaise(f) == [kind |-> "raise", fault |-> f]
LLMOk == [kind |-> "ok", fault |-> ""]
LLMMalformed == [kind |-> "malformed", fault |-> ""]
LLMOutcomes == {LLMRaise(f) : f \in ProviderFaults} \cup {LLMOk, LLMMalformed}

----------------------------------------------------------------------------
(* Results of an agent call: a returned value or a raised exception, and
   whether the generative-text provider was invoked on the way *)

Return(v, llm) == [raised |-> FALSE, fault |-> "", value |-> <<v>>, llm |-> llm]
Raise(f, llm) == [raised |-> TRUE, fault |-> f, value |-> <<>>, llm |-> llm]

Top5(s) == IF Len(s) <= 5 THEN s ELSE SubSeq(s, 1, 5)

\* GitHubTools.get_issues: any exception (get_repo(None) included) is caught
\* and an empty list is returned
get_issues(repo_name, gh) ==
    IF repo_name = None \/ Get(repo_name) = "" THEN <<>> ELSE gh

\* RepositoryScoutAgent.find_repositories: the ranking call to Gemini is made
\* whatever the candidates are; a Gemini fault propagates, an unparsable
\* answer yields []
find_repositories(user_profile, llm, matches) ==
    IF llm.kind = "raise" THEN Raise(llm.fault, TRUE)
    ELSE IF llm.kind = "malformed" THEN Return(<<>>, TRUE)
    ELSE Return(Top5(matches), TRUE)

ValidationErrorText == "1 validation error for ContributionGuide"

\* ContributionGuide(repo_name=...): pydantic rejects None for a str field
ContributionGuide(repo_name, content) ==
    IF repo_name = None
    THEN [raised |-> TRUE, fault |-> ValidationErrorText, value |-> <<>>]
    ELSE [raised |-> FALSE, fault |-> "",
          value |-> <<[repo_name |-> Get(repo_name), content |-> content]>>]

\* PreparationAgent._generate_guide: generate_content is called first; the
\* guide is built from the answer, or the fallback guide when the answer
\* does not parse (the fallback is built inside the except branch, so a
\* failure to build it propagates)
generate_guide(user_profile, repo_name, llm) ==
    IF llm.kind = "raise" THEN Raise(llm.fault, TRUE)
    ELSE LET generated == ContributionGuide(repo_name, "generated")
             fallback == ContributionGuide(repo_name, "fallback")
             guide == IF llm.kind = "ok" /\ ~generated.raised
                      THEN generated ELSE fallback
         IN IF guide.raised THEN Raise(guide.fault, TRUE)
            ELSE Return(Get(guide.value), TRUE)

\* PreparationAgent.prepare_onboarding_guide: the three GitHub reads swallow
\* their exceptions, then the guide is generated
prepare_onboarding_guide(user_profile, repo_name, llm) ==
    generate_guide(user_profile, repo_name, llm)

\* IssueMatcherAgent.find_suitable_issues: no GitHub issues -> [] without a
\* Gemini call; otherwise the analysed issues that correspond to a GitHub
\* issue, ranked, first five
find_suitable_issues(user_profile, repo_name, gh, llm, analysed) ==
    LET github_issues == get_issues(repo_name, gh)
        known(i) == \E k \in 1..Len(github_issues) :
                        github_issues[k] = i.issue_number
    IN IF github_issues = <<>> THEN Return(<<>>, FALSE)
       ELSE IF llm.kind = "raise" THEN Raise(llm.fault, TRUE)
       ELSE IF llm.kind = "malformed" THEN Return(<<>>, TRUE)
       ELSE Return(Top5(SelectSeq(analysed, known)), TRUE)

\* variant: without an issue number the lookup is skipped and a generic plan
\* is generated
create_mentoring_plan_skips_lookup(user_profile, repo_name, issue_number, gh, llm) ==
    LET issues == get_issues(repo_name, gh)
        found == \/ issue_number = None
                 \/ \E k \in 1..Len(issues) : issues[k] = Get(issue_number)
    IN IF ~found
       THEN Raise("Issue #" \o StrOfInt(issue_number) \o " not found in "
                  \o StrOfName(repo_name), FALSE)
       ELSE IF llm.kind = "raise" THEN Raise(llm.fault, TRUE)
       ELSE Return([issue_number |-> IF issue_number = None THEN 0
                                     ELSE Get(issue_number),
                    repo_name |-> StrOfName(repo_name),
                    content |-> IF llm.kind = "ok" THEN "generated"
                                ELSE "fallback"], TRUE)

\* MentoringAgent.create_mentoring_plan: the issue is looked up among the
\* repository's issues; not found -> ValueError before any Gemini call
create_mentoring_plan(user_profile, repo_name, issue_number, gh, llm) ==
    LET issues == get_issues(repo_name, gh)
        found == /\ issue_number # None
                 /\ \E k \in 1..Len(issues) : issues[k] = Get(issue_number)
    IN IF ~found
       THEN Raise("Issue #" \o StrOfInt(issue_number) \o " not found in "
                  \o StrOfName(repo_name), FALSE)
       ELSE IF llm.kind = "raise" THEN Raise(llm.fault, TRUE)
       ELSE Return([issue_number |-> Get(issue_number),
                    repo_name |-> Get(repo_name),
                    content |-> IF llm.kind = "ok" THEN "generated"
                                ELSE "fallback"], TRUE)

----------------------------------------------------------------------------
(* The stage nodes.  Each takes the dict handed to it and the result of its
   agent call and yields the dict it returns. *)

ErrorPrefix(stage) ==
    CASE stage = "scout_repositories" -> "Error scouting repositories: "
      [] stage = "prepare_onboarding" -> "Error preparing guide: "
      [] stage = "match_issues" -> "Error matching issues: "
      [] stage = "create_mentoring_plan" -> "Error creating plan: "

CompletionLabel(stage) ==
    CASE stage = "scout_repositories" -> "repositories_found"
      [] stage = "prepare_onboarding" -> "guide_prepared"
      [] stage = "match_issues" -> "issues_matched"
      [] stage = "create_mentoring_plan" -> "plan_created"

\* variant: the first failure's message is kept once error is set
except_branch_keeps_first(stage, st, e) ==
    [st EXCEPT !.error = IF st.error = None
                         THEN Some(ErrorPrefix(stage) \o e) ELSE st.error,
               !.messages = st.messages \o <<"Error: " \o e>>]

\* variant: a failure also moves current_step
except_branch_sets_step(stage, st, e) ==
    [st EXCEPT !.error = Some(ErrorPrefix(stage) \o e),
               !.messages = st.messages \o <<"Error: " \o e>>,
               !.current_step = "failed"]

\* variant: a failure discards what earlier stages produced
except_branch_discards_results(stage, st, e) ==
    [st EXCEPT !.error = Some(ErrorPrefix(stage) \o e),
               !.messages = st.messages \o <<"Error: " \o e>>,
               !.repositories = <<>>,
               !.issues = <<>>,
               !.contribution_guide = None,
               !.mentoring_plan = None]

\* the except branch shared by the four nodes
except_branch(stage, st, e) ==
    [st EXCEPT !.error = Some(ErrorPrefix(stage) \o e),
               !.messages = st.messages \o <<"Error: " \o e>>]

\* variant: Scout already selects the first repository it found
scout_repositories_node_selects(st, res) ==
    IF res.raised THEN except_branch("scout_repositories", st, res.fault)
    ELSE LET repositories == Get(res.value)
         IN [st EXCEPT !.repositories = repositories,
                       !.selected_repo_name =
                           IF repositories = <<>> THEN st.selected_repo_name
                           ELSE Some(repositories[1].repo_name),
                       !.messages = st.messages \o
                           <<"Found " \o ToString(Len(repositories))
                             \o " suitable repositories">>,
                       !.current_step = "repositories_found"]

scout_repositories_node(st, res) ==
    IF res.raised THEN except_branch("scout_repositories", st, res.fault)
    ELSE LET repositories == Get(res.value)
         IN [st EXCEPT !.repositories = repositories,
                       !.messages = st.messages \o
                           <<"Found " \o ToString(Len(repositories))
                             \o " suitable repositories">>,
                       !.current_step = "repositories_found"]

\* variant: the default is the last repository of the list
default_repo_picks_last(st) ==
    IF FalsyStr(st.selected_repo_name) /\ st.repositories # <<>>
    THEN [st EXCEPT
            !.selected_repo_name =
                Some(st.repositories[Len(st.repositories)].repo_name),
            !.selected_repo_url =
                Some(st.repositories[Len(st.repositories)].repo_url)]
    ELSE st

\* variant: no repository is defaulted
default_repo_skipped(st) == st

\* lines 96-98: the handed dict is updated in place before the agent call
default_repo(st) ==
    IF FalsyStr(st.selected_repo_name) /\ st.repositories # <<>>
    THEN [st EXCEPT !.selected_repo_name = Some(st.repositories[1].repo_name),
                    !.selected_repo_url = Some(st.repositories[1].repo_url)]
    ELSE st

\* variant: a successful Preparation leaves current_step as it was
prepare_onboarding_node_keeps_step(st, res) ==
    IF res.raised THEN except_branch("prepare_onboarding", st, res.fault)
    ELSE [st EXCEPT !.contribution_guide = Some(Get(res.value)),
                    !.messages = st.messages \o <<"Prepared onboarding guide">>]

prepare_onboarding_node(st, res) ==
    IF res.raised THEN except_branch("prepare_onboarding", st, res.fault)
    ELSE [st EXCEPT !.contribution_guide = Some(Get(res.value)),
                    !.messages = st.messages \o <<"Prepared onboarding guide">>,
                    !.current_step = "guide_prepared"]

\* variant: a successful Issue-Matcher resets error
match_issues_node_clears_error(st, res) ==
    IF res.raised THEN except_branch("match_issues", st, res.fault)
    ELSE LET issues == Get(res.value)
         IN [st EXCEPT !.issues = issues,
                       !.error = None,
                       !.messages = st.messages \o
                           <<"Found " \o ToString(Len(issues))
                             \o " suitable issues">>,
                       !.current_step = "issues_matched"]

\* variant: current_step advances only when issues were found
match_issues_node_steps_if_found(st, res) ==
    IF res.raised THEN except_branch("match_issues", st, res.fault)
    ELSE LET issues == Get(res.value)
         IN [st EXCEPT !.issues = issues,
                       !.messages = st.messages \o
                           <<"Found " \o ToString(Len(issues))
                             \o " suitable issues">>,
                       !.current_step = IF issues = <<>> THEN st.current_step
                                        ELSE "issues_matched"]

match_issues_node(st, res) ==
    IF res.raised THEN except_branch("match_issues", st, res.fault)
    ELSE LET issues == Get(res.value)
         IN [st EXCEPT !.issues = issues,
                       !.messages = st.messages \o
                           <<"Found " \o ToString(Len(issues))
                             \o " suitable issues">>,
                       !.current_step = "issues_matched"]

\* lines 143-144: the handed dict is updated in place before the agent call
default_issue(st) ==
    IF FalsyInt(st.selected_issue_number) /\ st.issues # <<>>
    THEN [st EXCEPT !.selected_issue_number = Some(st.issues[1].issue_number)]
    ELSE st

\* variant: a successful Mentor resets error
create_mentoring_plan_node_clears_error(st, res) ==
    IF res.raised THEN except_branch("create_mentoring_plan", st, res.fault)
    ELSE [st EXCEPT !.mentoring_plan = Some(Get(res.value)),
                    !.error = None,
                    !.messages = st.messages \o <<"Created mentoring plan">>,
                    !.current_step = "plan_created"]

create_mentoring_plan_node(st, res) ==
    IF res.raised THEN except_branch("create_mentoring_plan", st, res.fault)
    ELSE [st EXCEPT !.mentoring_plan = Some(Get(res.value)),
                    !.messages = st.messages \o <<"Created mentoring plan">>,
                    !.current_step = "plan_created"]

\* the dict a node holds when it makes its agent call: the handed dict after
\* the in-place defaulting of lines 96-98 and 143-144
node_defaults(stage, st) ==
    CASE stage = "prepare_onboarding" -> default_repo(st)
      [] stage = "create_mentoring_plan" -> default_issue(st)
      [] OTHER -> st

\* the agent call of each node, with the arguments the node passes; env is
\* what the providers answer during the call
agent_call(stage, st, env) ==
    CASE stage = "scout_repositories" ->
            find_repositories(st.user_profile, env.llm, env.matches)
      [] stage = "prepare_onboarding" ->
            prepare_onboarding_guide(st.user_profile, st.selected_repo_name,
                                     env.llm)
      [] stage = "match_issues" ->
            find_suitable_issues(st.user_profile, st.selected_repo_name,
                                 env.gh, env.llm, env.analysed)
      [] stage = "create_mentoring_plan" ->
            create_mentoring_plan(st.user_profile, st.selected_repo_name,
                                  st.selected_issue_number, env.gh, env.llm)

\* the node registered under each name by add_node
node_returns(stage, st, res) ==
    CASE stage = "scout_repositories" -> scout_repositories_node(st, res)
      [] stage = "prepare_onboarding" -> prepare_onboarding_node(st, res)
      [] stage = "match_issues" -> match_issues_node(st, res)
      [] stage = "create_mentoring_plan" -> create_mentoring_plan_node(st, res)

----------------------------------------------------------------------------
(* The graph runtime *)

\* messages is declared Annotated[Sequence[str], operator.add]: the graph
\* stores operator.add(current value, value written); every other key is
\* replaced by the value written
apply_writes(channels, update) ==
    [update EXCEPT !.messages = channels.messages \o update.messages]

\* ainvoke(input): the input dict is written to fresh channels
\* (messages starts as the empty list)
ainvoke_input(input) == [input EXCEPT !.messages = <<>> \o input.messages]

\* variant: the edge out of prepare_onboarding skips match_issues
full_edge_skips_match(node) ==
    CASE node = "scout_repositories" -> "prepare_onboarding"
      [] node = "prepare_onboarding" -> "create_mentoring_plan"
      [] node = "match_issues" -> "create_mentoring_plan"
      [] node = "create_mentoring_plan" -> "END"

\* _build_workflow: entry point and edges of the full graph
full_entry == "scout_repositories"
full_edge(node) ==
    CASE node = "scout_repositories" -> "prepare_onboarding"
      [] node = "prepare_onboarding" -> "match_issues"
      [] node = "match_issues" -> "create_mentoring_plan"
      [] node = "create_mentoring_plan" -> "END"

\* variant: any other start node is taken to mean the last stage
partial_known_accepts_other ==
    {"prepare_onboarding", "match_issues", "create_mentoring_plan",
     "track_progress"}

\* variant: the match_issues branch lacks the edge to create_mentoring_plan
partial_edge_match_ends(node) ==
    CASE node = "prepare_onboarding" -> "match_issues"
      [] node = "match_issues" -> "END"
      [] node = "create_mentoring_plan" -> "END"

\* run_partial_workflow: the start nodes for which the if/elif chain adds
\* nodes, an entry point and edges
partial_known == {"prepare_onboarding", "match_issues", "create_mentoring_plan"}
partial_edge(node) ==
    CASE node = "prepare_onboarding" -> "match_issues"
      [] node = "match_issues" -> "create_mentoring_plan"
      [] node = "create_mentoring_plan" -> "END"

next_node(node) ==
    IF run.kind = "full" THEN full_edge(node) ELSE partial_edge(node)

----------------------------------------------------------------------------
(* States *)

\* variant: the repository list of an earlier run is still in place
initial_state_keeps_repositories(user_profile) ==
    [user_profile |-> user_profile,
     repositories |-> <<RepoA>>,
     selected_repo_name |-> None,
     selected_repo_url |-> None,
     issues |-> <<>>,
     selected_issue_number |-> None,
     contribution_guide |-> None,
     mentoring_plan |-> None,
     messages |-> <<"Starting CodePathfinder workflow">>,
     current_step |-> "initializing",
     error |-> None]

initial_state(user_profile) ==
    [user_profile |-> user_profile,
     repositories |-> <<>>,
     selected_repo_name |-> None,
     selected_repo_url |-> None,
     issues |-> <<>>,
     selected_issue_number |-> None,
     contribution_guide |-> None,
     mentoring_plan |-> None,
     messages |-> <<"Starting CodePathfinder workflow">>,
     current_step |-> "initializing",
     error |-> None]

NoRun == [kind |-> "none", start_node |-> "", supplied |-> initial_state("beginner_py")]

\* the requests that may be in flight at once on the module-level workflow
Requests == {"request_1", "request_2"}
IdleCall == [pc |-> "idle", profile |-> "beginner_py",
             state |-> initial_state("beginner_py"),
             input |-> initial_state("beginner_py"),
             returned |-> initial_state("beginner_py"),
             outs |-> <<>>, response |-> None]

\* user ids a /progress/track request may carry: the ids the table can
\* hold and one it never holds
UserIds == 1..(MaxProfiles + 1)
\* empty tables, no /progress/track request in flight
NoTrack == [pc |-> "idle",
            user_profiles |-> {},
            contribution_outcomes |-> <<>>,
            user_id |-> 1,
            queried |-> FALSE,
            db_profile |-> None,
            response |-> None]

Init ==
    /\ pc = "idle"
    /\ calls = [r \in Requests |-> IdleCall]
    /\ track = NoTrack
    /\ run = NoRun
    /\ state = initial_state("beginner_py")
    /\ handed = state
    /\ returned = state
    /\ log = <<>>

----------------------------------------------------------------------------
(* Inputs of a partial run: states a caller can hold after an earlier run,
   possibly with a selection it has overridden *)

StartNodes == Stages \cup {"track_progress"}

SuppliedNames == {None, Some(""), Some("org/a"), Some("org/b")}
UrlOf(name) == IF name = None THEN None
               ELSE Some("https://github.com/" \o Get(name))
SuppliedIssueNumbers == {None} \cup {Some(n) : n \in IssueNumbers}
SuppliedGuides == {None, Some([repo_name |-> "org/b", content |-> "generated"])}
SuppliedPlans == {None, Some([issue_number |-> 7, repo_name |-> "org/b",
                              content |-> "generated"])}
SuppliedErrors == {None, Some(ErrorPrefix("match_issues") \o "timeout")}
SuppliedRepoLists == {<<>>, <<RepoA, RepoB>>}
SuppliedIssueLists == {<<>>, <<Issue(7), Issue(0)>>}

SuppliedStates ==
    {[user_profile |-> "beginner_py",
      repositories |-> r,
      selected_repo_name |-> n,
      selected_repo_url |-> UrlOf(n),
      issues |-> i,
      selected_issue_number |-> k,
      contribution_guide |-> g,
      mentoring_plan |-> m,
      messages |-> <<"Starting CodePathfinder workflow">>,
      current_step |-> "initializing",
      error |-> e] :
        r \in SuppliedRepoLists, n \in SuppliedNames, i \in SuppliedIssueLists,
        k \in SuppliedIssueNumbers, g \in SuppliedGuides,
        m \in SuppliedPlans, e \in SuppliedErrors}

----------------------------------------------------------------------------
(* Actions *)

LogEntry(stage, res, repo_arg, issue_arg) ==
    [stage |-> stage, raised |-> res.raised, fault |-> res.fault,
     llm |-> res.llm, repo_arg |-> repo_arg, issue_arg |-> issue_arg]

\* variant: a stage that recorded a fault ends the run
NodeStep_stops_on_fault(stage, inplace, ret, entry) ==
    /\ handed' = inplace
    /\ returned' = ret
    /\ state' = apply_writes(state, ret)
    /\ log' = Append(log, entry)
    /\ pc' = IF entry.raised THEN "END" ELSE next_node(stage)
    /\ UNCHANGED <<run, calls, track>>

\* one super-step of the graph: the node ran on the channel values, left its dict as
\* `inplace` and returned `ret`
NodeStep(stage, inplace, ret, entry) ==
    /\ handed' = inplace
    /\ returned' = ret
    /\ state' = apply_writes(state, ret)
    /\ log' = Append(log, entry)
    /\ pc' = next_node(stage)
    /\ UNCHANGED <<run, calls, track>>

run_full_workflow ==
    /\ pc = "idle"
    /\ \E user_profile \in Profiles :
        /\ run' = [kind |-> "full", start_node |-> full_entry,
                   supplied |-> initial_state(user_profile)]
        /\ state' = ainvoke_input(initial_state(user_profile))
    /\ pc' = full_entry
    /\ handed' = state'
    /\ returned' = state'
    /\ log' = <<>>
    /\ UNCHANGED <<calls, track>>

run_partial_workflow ==
    /\ pc = "idle"
    /\ \E start_node \in StartNodes, supplied \in SuppliedStates :
        /\ run' = [kind |-> "partial", start_node |-> start_node,
                   supplied |-> supplied]
        /\ IF start_node \in partial_known
           THEN /\ state' = ainvoke_input(supplied)
                /\ pc' = start_node
           ELSE \* no node and no entry point were added: compile() raises
                /\ state' = supplied
                /\ pc' = "raised"
    /\ handed' = state'
    /\ returned' = state'
    /\ log' = <<>>
    /\ UNCHANGED <<calls, track>>

scout_repositories ==
    /\ pc = "scout_repositories"
    /\ \E llm \in LLMOutcomes, matches \in RepoLists :
        LET res == find_repositories(state.user_profile, llm, matches)
        IN NodeStep("scout_repositories", state,
                    scout_repositories_node(state, res),
                    LogEntry("scout_repositories", res, None, None))

prepare_onboarding ==
    /\ pc = "prepare_onboarding"
    /\ \E llm \in LLMOutcomes :
        LET st == default_repo(state)
            res == prepare_onboarding_guide(st.user_profile,
                                            st.selected_repo_name, llm)
        IN NodeStep("prepare_onboarding", st,
                    prepare_onboarding_node(st, res),
                    LogEntry("prepare_onboarding", res,
                             st.selected_repo_name, None))

match_issues ==
    /\ pc = "match_issues"
    /\ \E gh \in GithubIssueLists, llm \in LLMOutcomes, analysed \in IssueLists :
        LET res == find_suitable_issues(state.user_profile,
                                        state.selected_repo_name,
                                        gh, llm, analysed)
        IN NodeStep("match_issues", state,
                    match_issues_node(state, res),
                    LogEntry("match_issues", res,
                             state.selected_repo_name, None))

create_mentoring_plan_step ==
    /\ pc = "create_mentoring_plan"
    /\ \E gh \in GithubIssueLists, llm \in LLMOutcomes :
        LET st == default_issue(state)
            res == create_mentoring_plan(st.user_profile,
                                         st.selected_repo_name,
                                         st.selected_issue_number, gh, llm)
        IN NodeStep("create_mentoring_plan", st,
                    create_mentoring_plan_node(st, res),
                    LogEntry("create_mentoring_plan", res,
                             st.selected_repo_name,
                             st.selected_issue_number))

\* the graph reached END: ainvoke returns the channel values
return_final_state ==
    /\ pc = "END"
    /\ pc' = "done"
    /\ UNCHANGED <<run, state, handed, returned, log, calls, track>>

Next ==
    \/ run_full_workflow
    \/ run_partial_workflow
    \/ scout_repositories
    \/ prepare_onboarding
    \/ match_issues
    \/ create_mentoring_plan_step
    \/ return_final_state

Spec == Init /\ [][Next]_vars

\* every awaited agent call eventually returns or raises, and the graph
\* runtime keeps scheduling the next node until END
FairSpec ==
    /\ Spec
    /\ WF_vars(scout_repositories)
    /\ WF_vars(prepare_onboarding)
    /\ WF_vars(match_issues)
    /\ WF_vars(create_mentoring_plan_step)
    /\ WF_vars(return_final_state)

----------------------------------------------------------------------------
(* The /workflow/full route: requests are served on the one module-level
   CodePathfinderWorkflow; each awaits self.workflow.ainvoke, and the event
   loop may switch between requests at every agent call. *)

\* what the providers answer while two requests are in flight
ConcEnvs ==
    [llm : {LLMOk, LLMRaise("timeout")},
     matches : {<<RepoA>>, <<RepoB, RepoA>>},
     gh : {<<>>, <<7>>},
     analysed : {<<Issue(7)>>}]

\* pydantic .dict(): the model's fields as a dict
dict(m) == [k \in DOMAIN m |-> m[k]]

\* variant: a run that ended with an error reports no partial result
full_workflow_response_drops_partial(final_state) ==
    IF FalsyStr(final_state.error)
    THEN [status |-> "completed",
          error |-> final_state.error,
          repositories |-> [i \in 1..Len(final_state.repositories) |->
                               dict(final_state.repositories[i])],
          selected_repo |-> final_state.selected_repo_name,
          issues |-> [i \in 1..Len(final_state.issues) |->
                         dict(final_state.issues[i])],
          contribution_guide |->
              IF final_state.contribution_guide # None
              THEN Some(dict(Get(final_state.contribution_guide))) ELSE None,
          mentoring_plan |->
              IF final_state.mentoring_plan # None
              THEN Some(dict(Get(final_state.mentoring_plan))) ELSE None,
          messages |-> final_state.messages,
          current_step |-> final_state.current_step]
    ELSE [status |-> "error",
          error |-> final_state.error,
          repositories |-> <<>>,
          selected_repo |-> None,
          issues |-> <<>>,
          contribution_guide |-> None,
          mentoring_plan |-> None,
          messages |-> final_state.messages,
          current_step |-> final_state.current_step]

\* the dict returned by the route (routes.py lines 203-213)
full_workflow_response(final_state) ==
    [status |-> IF FalsyStr(final_state.error) THEN "completed" ELSE "error",
     error |-> final_state.error,
     repositories |-> [i \in 1..Len(final_state.repositories) |->
                          dict(final_state.repositories[i])],
     selected_repo |-> final_state.selected_repo_name,
     issues |-> [i \in 1..Len(final_state.issues) |->
                    dict(final_state.issues[i])],
     contribution_guide |->
         IF final_state.contribution_guide # None
         THEN Some(dict(Get(final_state.contribution_guide))) ELSE None,
     mentoring_plan |->
         IF final_state.mentoring_plan # None
         THEN Some(dict(Get(final_state.mentoring_plan))) ELSE None,
     messages |-> final_state.messages,
     current_step |-> final_state.current_step]

\* variant: the nodes read the repository selection from an attribute of the
\* shared instance, which holds what any request selected last
node_input_shares_selection(c, r) ==
    LET others == {o \in Requests \ {r} :
                      c[o].state.selected_repo_name # None}
    IN IF others = {} THEN c[r].state
       ELSE LET o == CHOOSE o \in others : TRUE
            IN [c[r].state EXCEPT
                  !.selected_repo_name = c[o].state.selected_repo_name,
                  !.selected_repo_url = c[o].state.selected_repo_url]

\* a node is called with the channel values of its own ainvoke call
node_input(c, r) == c[r].state

\* the route is entered: run_full_workflow builds initial_state and awaits
\* ainvoke up to the first agent call
workflow_full_route(r) ==
    /\ calls[r].pc \in {"idle", "responded"}
    /\ \E profile \in Profiles :
        calls' = [calls EXCEPT ![r] =
                    [@ EXCEPT !.pc = full_entry,
                              !.profile = profile,
                              !.state = ainvoke_input(initial_state(profile)),
                              !.outs = <<>>,
                              !.response = None]]
    /\ UNCHANGED <<pc, run, state, handed, returned, log, track>>

\* an agent call of request r completes and its node returns
await_stage(r) ==
    /\ calls[r].pc \in Stages
    /\ \E env \in ConcEnvs :
        LET stage == calls[r].pc
            input == node_input(calls, r)
            st == node_defaults(stage, input)
            res == agent_call(stage, st, env)
            ret == node_returns(stage, st, res)
        IN calls' = [calls EXCEPT ![r] =
                       [@ EXCEPT !.pc = full_edge(stage),
                                 !.state = apply_writes(calls[r].state, ret),
                                 !.input = input,
                                 !.returned = ret,
                                 !.outs = Append(@, res)]]
    /\ UNCHANGED <<pc, run, state, handed, returned, log, track>>

\* ainvoke returned the final state: the route builds its response
workflow_full_route_return(r) ==
    /\ calls[r].pc = "END"
    /\ calls' = [calls EXCEPT ![r] =
                    [@ EXCEPT !.pc = "responded",
                              !.response =
                                  Some(full_workflow_response(calls[r].state))]]
    /\ UNCHANGED <<pc, run, state, handed, returned, log, track>>

ConcNext ==
    \E r \in Requests :
        \/ workflow_full_route(r)
        \/ await_stage(r)
        \/ workflow_full_route_return(r)

ConcSpec == Init /\ [][ConcNext]_vars

----------------------------------------------------------------------------
(* The /profile and /progress/track routes over the database *)

HTTPException(status_code, detail) ==
    [status_code |-> status_code, detail |-> detail, body |-> ""]
\* str(e) of an HTTPException: "<status_code>: <detail>"
StrOfHTTPException(e) == ToString(e.status_code) \o ": " \o e.detail

\* the `except Exception as e` branch of track_progress (lines 190-191);
\* HTTPException is an Exception, so it is caught here as well
track_progress_except(str_e) ==
    HTTPException(500, "Error tracking progress: " \o str_e)

\* the dict returned by track_progress (lines 185-188)
track_progress_ok(insights) ==
    [status_code |-> 200, detail |-> "", body |-> insights]

\* ProgressTrackerAgent.analyze_contribution_outcome: generate_content is
\* called outside the try block; an unparsable answer yields fallback insights
analyze_contribution_outcome(llm) ==
    IF llm.kind = "raise" THEN Raise(llm.fault, TRUE)
    ELSE Return(IF llm.kind = "ok" THEN "insights" ELSE "fallback insights", TRUE)

\* POST /profile: a row is added under the next id
create_user_profile ==
    /\ Cardinality(track.user_profiles) < MaxProfiles
    /\ track' = [track EXCEPT
                    !.user_profiles = @ \cup {Cardinality(@) + 1}]
    /\ UNCHANGED <<pc, run, state, handed, returned, log, calls>>

\* POST /progress/track, lines 146-160: the outcome row is added and
\* committed; a database fault is answered by the except branch
track_progress_commit ==
    /\ track.pc \in {"idle", "responded"}
    /\ Len(track.contribution_outcomes) < MaxOutcomes
    /\ \E user_id \in UserIds, commit_ok \in BOOLEAN :
        track' = [track EXCEPT
                    !.user_id = user_id,
                    !.queried = FALSE,
                    !.db_profile = None,
                    !.contribution_outcomes =
                        IF commit_ok THEN Append(@, user_id) ELSE @,
                    !.pc = IF commit_ok THEN "committed" ELSE "responded",
                    !.response =
                        IF commit_ok THEN None
                        ELSE Some(track_progress_except("database error"))]
    /\ UNCHANGED <<pc, run, state, handed, returned, log, calls>>

\* lines 163-168: the profile is selected by id; without a row the handler
\* raises HTTPException(404) inside the try block
track_progress_select ==
    /\ track.pc = "committed"
    /\ LET db_profile == IF track.user_id \in track.user_profiles
                         THEN Some(track.user_id) ELSE None
       IN track' = [track EXCEPT
                      !.queried = TRUE,
                      !.db_profile = db_profile,
                      !.pc = IF db_profile = None THEN "responded"
                             ELSE "selected",
                      !.response =
                          IF db_profile = None
                          THEN Some(track_progress_except(StrOfHTTPException(
                                   HTTPException(404, "User profile not found"))))
                          ELSE None]
    /\ UNCHANGED <<pc, run, state, handed, returned, log, calls>>

\* lines 170-188: the tracker agent analyses the outcome
track_progress_analyze ==
    /\ track.pc = "selected"
    /\ \E llm \in LLMOutcomes :
        LET res == analyze_contribution_outcome(llm)
        IN track' = [track EXCEPT
                       !.pc = "responded",
                       !.response =
                           IF res.raised
                           THEN Some(track_progress_except(res.fault))
                           ELSE Some(track_progress_ok(Get(res.value)))]
    /\ UNCHANGED <<pc, run, state, handed, returned, log, calls>>

TrackNext ==
    \/ create_user_profile
    \/ track_progress_commit
    \/ track_progress_select
    \/ track_progress_analyze

TrackSpec == Init /\ [][TrackNext]_vars

----------------------------------------------------------------------------
(* Helpers for the properties *)

LastLog == log[Len(log)]
FailedAt == {i \in 1..Len(log) : log[i].raised}
LastFailed == CHOOSE i \in FailedAt : \A j \in FailedAt : j <= i
ErrorOf(entry) == Some(ErrorPrefix(entry.stage) \o entry.fault)
StageIndex(stage) == CHOOSE i \in 1..4 : StageNames[i] = stage
\* a stage was attempted in this step
Attempt == Len(log') = Len(log) + 1
FullDone == run.kind = "full" /\ pc = "done"

----------------------------------------------------------------------------
(* C1: in a full run the four stages are attempted once each, in the order
   Scout, Preparation, Issue-Matcher, Mentor, whatever their outcomes: the
   attempts so far are always a prefix of that order, the stage about to run
   is the one after the last attempted, and a finished run has four. *)
C1_FixedOrder ==
    run.kind = "full" =>
        /\ Len(log) <= 4
        /\ \A i \in 1..Len(log) : log[i].stage = StageNames[i]
        /\ pc \in Stages => pc = StageNames[Len(log) + 1]
        /\ pc \in {"END", "done"} => Len(log) = 4
        /\ pc # "raised"

C1_Witness ==
    /\ FullDone
    /\ log[1].raised /\ ~log[3].raised /\ log[4].raised

(* C2: a fault raised by a stage's agent call is caught in that stage's
   transition: the state's error carries the stage's message, the node's
   returned messages are its input messages plus the one fault entry, which
   is the last entry of the run's messages; the run goes on to the next
   stage, never raises, and a finished run has attempted every stage from
   its entry point to Mentor. *)
C2_FaultContained ==
    /\ (Len(log) > 0 /\ LastLog.raised) =>
        /\ state.error = ErrorOf(LastLog)
        /\ returned.messages = handed.messages \o <<"Error: " \o LastLog.fault>>
        /\ state.messages[Len(state.messages)] = "Error: " \o LastLog.fault
        /\ pc \in (Stages \cup {"END", "done"})
        /\ pc \in Stages => StageIndex(pc) = StageIndex(LastLog.stage) + 1
    /\ (pc = "done" /\ FailedAt # {}) =>
        /\ LastLog.stage = "create_mentoring_plan"
        /\ \A i \in 1..Len(log) :
              StageIndex(log[i].stage) = StageIndex(run.start_node) + i - 1

C2_Witness ==
    /\ FullDone
    /\ log[1].raised /\ log[2].raised /\ Len(log) = 4

(* C3: once error is non-null it stays non-null through every later stage of
   the run, and a stage that succeeds leaves error exactly as it was. *)
C3_StickyError ==
    [][/\ state.error # None => state'.error # None
       /\ (Attempt /\ ~log'[Len(log')].raised) =>
              /\ state'.error = state.error
              /\ returned'.error = state.error]_vars

C3_Witness ==
    /\ Len(log) >= 2
    /\ log[Len(log) - 1].raised
    /\ LastLog.stage = "match_issues" /\ ~LastLog.raised
    /\ state.error = ErrorOf(log[Len(log) - 1])

(* C4: after any prefix of a run, error is the message of the most recently
   failed stage of the run (the value the run started with if none failed). *)
C4_LastFailureWins ==
    pc \in (Stages \cup {"END", "done"}) =>
        IF FailedAt = {} THEN state.error = run.supplied.error
        ELSE state.error = ErrorOf(log[LastFailed])

C4_Witness ==
    /\ FullDone
    /\ log[2].raised /\ ~log[3].raised /\ log[4].raised
    /\ state.error = Some("Error creating plan: timeout")
    /\ ErrorOf(log[2]) # state.error

----------------------------------------------------------------------------
(* Frames of one stage transition: `s` is the state handed to the node, `r`
   the state it returns *)

\* the repository selection is as handed, or was unset and is repositories[0]
RepoSelectionKeptOrDefaulted(s, r) ==
    \/ /\ r.selected_repo_name = s.selected_repo_name
       /\ r.selected_repo_url = s.selected_repo_url
    \/ /\ FalsyStr(s.selected_repo_name) /\ s.repositories # <<>>
       /\ r.selected_repo_name = Some(s.repositories[1].repo_name)
       /\ r.selected_repo_url = Some(s.repositories[1].repo_url)

\* the issue selection is as handed, or was unset and is issues[0]
IssueSelectionKeptOrDefaulted(s, r) ==
    \/ r.selected_issue_number = s.selected_issue_number
    \/ /\ FalsyInt(s.selected_issue_number) /\ s.issues # <<>>
       /\ r.selected_issue_number = Some(s.issues[1].issue_number)

SelectionFrame(stage, s, r) ==
    /\ IF stage = "prepare_onboarding"
       THEN RepoSelectionKeptOrDefaulted(s, r)
       ELSE /\ r.selected_repo_name = s.selected_repo_name
            /\ r.selected_repo_url = s.selected_repo_url
    /\ IF stage = "create_mentoring_plan"
       THEN IssueSelectionKeptOrDefaulted(s, r)
       ELSE r.selected_issue_number = s.selected_issue_number

OwnedFrame(owner, s, r) ==
    /\ owner # "scout_repositories" => r.repositories = s.repositories
    /\ owner # "prepare_onboarding" => r.contribution_guide = s.contribution_guide
    /\ owner # "match_issues" => r.issues = s.issues
    /\ owner # "create_mentoring_plan" => r.mentoring_plan = s.mentoring_plan

(* C5: a successful stage transition returns its input state changed only in
   the stage's owned field, in messages, in current_step (the stage's
   completion label) and, for Preparation and Mentor, in a selection that
   was defaulted; user_profile, error and the other owned fields are as
   handed in. *)
C5_SuccessFrame ==
    [][(Attempt /\ ~log'[Len(log')].raised) =>
          LET stage == log'[Len(log')].stage
          IN /\ returned'.user_profile = state.user_profile
             /\ returned'.error = state.error
             /\ OwnedFrame(stage, state, returned')
             /\ SelectionFrame(stage, state, returned')
             /\ returned'.current_step = CompletionLabel(stage)]_vars

C5_Witness ==
    /\ run.kind = "full"
    /\ Len(log) = 2 /\ ~LastLog.raised
    /\ returned.selected_repo_name = Some("org/a")
    /\ returned.contribution_guide # None
    /\ returned.current_step = "guide_prepared"

(* C6 as stated: a failed stage transition returns its input state changed
   in error and messages only. *)
C6_FailureFrameAsStated ==
    [][(Attempt /\ log'[Len(log')].raised) =>
          returned' = [state EXCEPT
                         !.error = ErrorOf(log'[Len(log')]),
                         !.messages = state.messages \o
                             <<"Error: " \o log'[Len(log')].fault>>]]_vars

(* C6 amended: a failed stage transition returns its input state changed
   only in error (the stage's message), in messages (one entry appended)
   and, for Preparation and Mentor, in a selection that was defaulted; the
   owned fields, current_step and user_profile are as handed in. *)
C6_FailureFrame ==
    [][(Attempt /\ log'[Len(log')].raised) =>
          LET stage == log'[Len(log')].stage
          IN /\ returned'.error = ErrorOf(log'[Len(log')])
             /\ returned'.messages = state.messages \o
                    <<"Error: " \o log'[Len(log')].fault>>
             /\ returned'.user_profile = state.user_profile
             /\ returned'.current_step = state.current_step
             /\ OwnedFrame("", state, returned')
             /\ SelectionFrame(stage, state, returned')]_vars

C6_Witness ==
    /\ run.kind = "full"
    /\ Len(log) = 2 /\ LastLog.raised
    /\ state.repositories # <<>>
    /\ returned.selected_repo_name = Some(state.repositories[1].repo_name)
    /\ returned.current_step = "repositories_found"
    /\ returned.contribution_guide = None

(* C7: every stage attempt, successful or failed, leaves the run's messages
   exactly one entry longer than before. *)
C7_OneMessagePerAttempt ==
    [][Attempt => Len(state'.messages) = Len(state.messages) + 1]_vars

(* C8: the messages of the state a run returns are as many as the stage
   attempts of the run: 4 for a full run. *)
C8_MessagesCountAttempts ==
    pc = "done" =>
        /\ Len(state.messages) = Len(log)
        /\ run.kind = "full" => Len(state.messages) = 4

----------------------------------------------------------------------------
\* a full run in which Scout returned an empty candidate list
ScoutFoundNothing ==
    /\ run.kind = "full"
    /\ Len(log) >= 1 /\ ~log[1].raised
    /\ state.repositories = <<>>

(* C9: when Scout returned no candidate and no repository was pre-selected,
   Preparation records a failure and does not invoke the generative-text
   provider. *)
C9_NoProviderCallWithoutRepo ==
    (ScoutFoundNothing /\ Len(log) >= 2) =>
        /\ log[2].raised
        /\ ~log[2].llm

(* C10: a full run in which Scout returned no candidate ends with
   repositories empty, error naming the Preparation failure,
   contribution_guide null, issues empty, mentoring_plan null and exactly 4
   messages. *)
C10_ZeroCandidateScenario ==
    (ScoutFoundNothing /\ pc = "done") =>
        /\ state.repositories = <<>>
        /\ state.error = ErrorOf(log[2])
        /\ state.contribution_guide = None
        /\ state.issues = <<>>
        /\ state.mentoring_plan = None
        /\ Len(state.messages) = 4

----------------------------------------------------------------------------
(* C11: when Preparation starts with selected_repo_name unset and
   repositories non-empty, the run's selected_repo_name and selected_repo_url
   are those of repositories[0] after the Preparation transition, whether it
   succeeded or failed, and keep their values through Issue-Matcher, Mentor
   and the return; selected_issue_number, unset with issues non-empty when
   Mentor starts, is issues[0]'s number after Mentor and is returned so. *)
C11_DefaultSelectionPersists ==
    [][/\ (pc = "prepare_onboarding" /\ Attempt
           /\ state.selected_repo_name = None /\ state.repositories # <<>>) =>
              /\ state'.selected_repo_name =
                     Some(state.repositories[1].repo_name)
              /\ state'.selected_repo_url =
                     Some(state.repositories[1].repo_url)
       /\ pc \in {"match_issues", "create_mentoring_plan", "END"} =>
              /\ state'.selected_repo_name = state.selected_repo_name
              /\ state'.selected_repo_url = state.selected_repo_url
       /\ (pc = "create_mentoring_plan" /\ Attempt
           /\ state.selected_issue_number = None /\ state.issues # <<>>) =>
              state'.selected_issue_number =
                  Some(state.issues[1].issue_number)
       /\ pc = "END" =>
              state'.selected_issue_number = state.selected_issue_number]_vars

C11_Witness ==
    /\ FullDone
    /\ state.repositories = <<RepoB, RepoA>>
    /\ log[2].raised /\ ~log[3].raised
    /\ state.selected_repo_name = Some("org/b")
    /\ state.issues = <<Issue(7), Issue(0)>>
    /\ state.selected_issue_number = Some(7)

(* C12: for each of the four stage names given as start_node, a partial run
   attempts that stage and every later stage in the fixed order, once each,
   and no earlier stage. *)
C12_PartialRunFromEveryStage ==
    (run.kind = "partial" /\ run.start_node \in Stages) =>
        /\ pc # "raised"
        /\ \A i \in 1..Len(log) :
              StageIndex(log[i].stage) = StageIndex(run.start_node) + i - 1
        /\ pc = "done" => Len(log) = 5 - StageIndex(run.start_node)

(* C13: a partial run from match_issues attempts Issue-Matcher, then Mentor,
   and nothing else, and its state keeps the repositories and the
   contribution_guide of the supplied state, whatever the two outcomes. *)
C13_FromMatchIssues ==
    (run.kind = "partial" /\ run.start_node = "match_issues") =>
        /\ Len(log) <= 2
        /\ \A i \in 1..Len(log) : log[i].stage = StageNames[i + 2]
        /\ pc \in {"END", "done"} => Len(log) = 2
        /\ pc # "raised"
        /\ state.repositories = run.supplied.repositories
        /\ state.contribution_guide = run.supplied.contribution_guide

C13_Witness ==
    /\ run.kind = "partial" /\ run.start_node = "match_issues"
    /\ pc = "done"
    /\ log[1].raised /\ ~log[2].raised
    /\ state.repositories # <<>>
    /\ state.contribution_guide # None

(* C14: a partial run given a start_node outside the four stage names ends
   in an error raised to the caller with no stage attempted and the
   supplied state as it was. *)
C14_InvalidStartNode ==
    (run.kind = "partial" /\ run.start_node \notin Stages) =>
        /\ pc = "raised"
        /\ log = <<>>
        /\ state = run.supplied

C14_Witness ==
    /\ run.kind = "partial" /\ run.start_node = "track_progress"
    /\ pc = "raised"
    /\ run.supplied.repositories # <<>>
    /\ run.supplied.selected_issue_number = Some(7)

(* C19: when Mentor runs with selected_issue_number unset and issues empty,
   the transition fails: error is the plan-creation message, mentoring_plan
   is what it was (null when the run started with none) and current_step is
   not advanced to plan_created. *)
C19_MentorWithoutIssue ==
    (/\ Len(log) > 0 /\ LastLog.stage = "create_mentoring_plan"
     /\ handed.selected_issue_number = None /\ handed.issues = <<>>) =>
        /\ LastLog.raised
        /\ state.error = Some("Error creating plan: Issue #None not found in "
                              \o StrOfName(state.selected_repo_name))
        /\ state.mentoring_plan = run.supplied.mentoring_plan
        /\ run.kind = "full" => state.mentoring_plan = None
        /\ state.current_step = handed.current_step
        /\ state.current_step # "plan_created"

C19_Witness ==
    /\ FullDone
    /\ ~log[1].raised /\ ~log[2].raised /\ ~log[3].raised
    /\ state.issues = <<>>
    /\ state.selected_issue_number = None
    /\ state.current_step = "issues_matched"
    /\ state.mentoring_plan = None

(* C20: the Preparation agent is never called with a null repository
   name. *)
C20_NoNullRepoName ==
    \A i \in 1..Len(log) :
        log[i].stage = "prepare_onboarding" => log[i].repo_arg # None

----------------------------------------------------------------------------
(* Helpers for the properties of the /workflow/full requests *)

RECURSIVE Replay(_, _)
\* the channel values of a run executed alone for user_profile whose agent
\* calls gave the results outs
Replay(user_profile, outs) ==
    IF outs = <<>> THEN ainvoke_input(initial_state(user_profile))
    ELSE LET k == Len(outs)
             prev == Replay(user_profile, SubSeq(outs, 1, k - 1))
             stage == StageNames[k]
         IN apply_writes(prev, node_returns(stage, node_defaults(stage, prev),
                                            outs[k]))

\* the field a stage writes its agent's result to
OutputOf(stage) ==
    CASE stage = "scout_repositories" -> "repositories"
      [] stage = "prepare_onboarding" -> "contribution_guide"
      [] stage = "match_issues" -> "issues"
      [] stage = "create_mentoring_plan" -> "mentoring_plan"

\* the last transitions of two requests were the same stage on equal inputs
SameTransition(a, b) ==
    /\ Len(a.outs) > 0
    /\ Len(a.outs) = Len(b.outs)
    /\ a.input = b.input

LastOut(a) == a.outs[Len(a.outs)]

(* C15: two runs on the shared instance that interleave at their agent calls
   are independent: at every point each request's state is the state of a
   run executed alone with that request's profile and that request's own
   agent results, its user_profile is its own, and its response is built
   from that state. *)
C15_ConcurrentRunsIndependent ==
    \A r \in Requests :
        calls[r].pc # "idle" =>
            /\ calls[r].state = Replay(calls[r].profile, calls[r].outs)
            /\ calls[r].state.user_profile = calls[r].profile
            /\ calls[r].response # None =>
                  Get(calls[r].response) =
                      full_workflow_response(Replay(calls[r].profile,
                                                    calls[r].outs))

C15_Witness ==
    /\ calls["request_1"].pc = "match_issues"
    /\ calls["request_2"].pc = "create_mentoring_plan"
    /\ calls["request_1"].profile # calls["request_2"].profile
    /\ calls["request_1"].state.selected_repo_name = Some("org/a")
    /\ calls["request_2"].state.selected_repo_name = Some("org/b")
    /\ calls["request_1"].state.error = None
    /\ calls["request_2"].state.error # None

(* C16: the response of /workflow/full has status "error" when the final
   state's error is non-null and "completed" when it is null, and in both
   cases carries the final state's error, repositories, selected repository,
   issues, contribution guide, mentoring plan, messages and current_step. *)
C16_FullRouteResponse ==
    \A r \in Requests :
        calls[r].pc = "responded" =>
            LET resp == Get(calls[r].response)
                final_state == calls[r].state
            IN /\ calls[r].response # None
               /\ final_state.error # None => resp.status = "error"
               /\ final_state.error = None => resp.status = "completed"
               /\ resp.error = final_state.error
               /\ resp.repositories = final_state.repositories
               /\ resp.selected_repo = final_state.selected_repo_name
               /\ resp.issues = final_state.issues
               /\ resp.contribution_guide = final_state.contribution_guide
               /\ resp.mentoring_plan = final_state.mentoring_plan
               /\ resp.messages = final_state.messages
               /\ resp.current_step = final_state.current_step

C16_Witness ==
    /\ calls["request_1"].pc = "responded"
    /\ Get(calls["request_1"].response).status = "error"
    /\ Get(calls["request_1"].response).repositories = <<RepoB, RepoA>>
    /\ Get(calls["request_1"].response).contribution_guide # None
    /\ Get(calls["request_1"].response).issues # <<>>
    /\ Get(calls["request_1"].response).mentoring_plan = None
    /\ calls["request_2"].pc = "responded"
    /\ Get(calls["request_2"].response).status = "completed"
    /\ Get(calls["request_2"].response).mentoring_plan # None

(* C17 as stated: whenever two requests made the same stage transition on
   structurally identical inputs, the two results have the same number of
   messages and the same current_step. *)
C17_IdempotentBookkeepingAsStated ==
    \A r1, r2 \in Requests :
        SameTransition(calls[r1], calls[r2]) =>
            /\ Len(calls[r1].returned.messages) = Len(calls[r2].returned.messages)
            /\ Len(calls[r1].state.messages) = Len(calls[r2].state.messages)
            /\ calls[r1].returned.current_step = calls[r2].returned.current_step

(* C17: whenever two requests made the same stage transition on structurally
   identical inputs, the two results have the same number of messages; when
   the two agent calls also ended the same way (both returned or both
   raised), current_step is the same and so is every field other than the
   stage's output field, error and the text of messages, and error is the
   same too when both returned. *)
C17_IdempotentBookkeeping ==
    \A r1, r2 \in Requests :
        SameTransition(calls[r1], calls[r2]) =>
            LET a == calls[r1]
                b == calls[r2]
                stage == StageNames[Len(a.outs)]
            IN /\ Len(a.returned.messages) = Len(b.returned.messages)
               /\ Len(a.state.messages) = Len(b.state.messages)
               /\ LastOut(a).raised = LastOut(b).raised =>
                     /\ a.returned.current_step = b.returned.current_step
                     /\ a.state.current_step = b.state.current_step
                     /\ \A f \in DOMAIN a.returned \ {OutputOf(stage), "messages", "error"} :
                           a.returned[f] = b.returned[f]
                     /\ ~LastOut(a).raised => a.returned.error = b.returned.error

C17_Witness ==
    /\ SameTransition(calls["request_1"], calls["request_2"])
    /\ StageNames[Len(calls["request_1"].outs)] = "match_issues"
    /\ ~LastOut(calls["request_1"]).raised
    /\ ~LastOut(calls["request_2"]).raised
    /\ calls["request_1"].returned.issues # calls["request_2"].returned.issues
    /\ calls["request_1"].returned.current_step = "issues_matched"

(* C18: a full run starts from a fresh state: when run_full_workflow has
   handed its initial state to the graph and no stage has run yet, the state
   has the request's profile, empty repositories and issues, no selection, no
   guide, no plan, the single message "Starting CodePathfinder workflow",
   current_step "initializing" and no error, whatever earlier requests left
   behind. *)
C18_FreshStateAtStart ==
    \A r \in Requests :
        calls[r].pc = full_entry =>
            /\ calls[r].outs = <<>>
            /\ calls[r].state =
                  [user_profile |-> calls[r].profile,
                   repositories |-> <<>>,
                   selected_repo_name |-> None,
                   selected_repo_url |-> None,
                   issues |-> <<>>,
                   selected_issue_number |-> None,
                   contribution_guide |-> None,
                   mentoring_plan |-> None,
                   messages |-> <<"Starting CodePathfinder workflow">>,
                   current_step |-> "initializing",
                   error |-> None]

\* request_1 starts again after its earlier run, for another profile, ended
\* with repositories and an error; request_2 has finished with a plan
C18_Witness ==
    /\ calls["request_1"].pc = full_entry
    /\ calls["request_1"].returned.user_profile # calls["request_1"].profile
    /\ calls["request_1"].returned.repositories # <<>>
    /\ calls["request_1"].returned.error # None
    /\ calls["request_1"].state.error = None
    /\ calls["request_2"].pc = "responded"
    /\ calls["request_2"].state.mentoring_plan # None

----------------------------------------------------------------------------
(* C21: a stage transition never modifies the state record it was handed:
   after every stage attempt the dict the node was handed still has the
   values it was handed with (the selections included). *)
C21_HandedStateUntouched ==
    [][Attempt => handed' = state]_vars

\* exactly one of {repositories empty, selected_repo_name set}
ExactlyOne(repositories, selected_repo_name) ==
    (repositories = <<>>) # (selected_repo_name # None)

(* C22 as stated: whenever Preparation or Issue-Matcher is about to begin,
   exactly one of {repositories is empty, selected_repo_name is set}
   holds. *)
C22_ExactlyOneAsStated ==
    pc \in {"prepare_onboarding", "match_issues"} =>
        ExactlyOne(state.repositories, state.selected_repo_name)

(* C22: in a full run, exactly one of {repositories is empty,
   selected_repo_name is set} holds when Issue-Matcher begins and when
   Preparation makes its agent call (after its defaulting); when Preparation
   begins selected_repo_name is never set. *)
C22_ExactlyOne ==
    run.kind = "full" =>
        /\ pc = "match_issues" =>
              ExactlyOne(state.repositories, state.selected_repo_name)
        /\ pc = "prepare_onboarding" => state.selected_repo_name = None
        /\ Len(log) >= 2 => ExactlyOne(state.repositories, log[2].repo_arg)

C22_Witness ==
    /\ run.kind = "full" /\ pc = "match_issues"
    /\ state.repositories = <<RepoB, RepoA>>
    /\ log[2].raised
    /\ state.selected_repo_name = Some("org/b")

(* C23: a repository pinned by the caller is never overwritten: in a
   partial run whose supplied state has selected_repo_name set, the run's
   selected_repo_name and selected_repo_url are always the supplied ones. *)
C23_PinnedRepoKept ==
    (run.kind = "partial" /\ run.supplied.selected_repo_name # None) =>
        /\ state.selected_repo_name = run.supplied.selected_repo_name
        /\ state.selected_repo_url = run.supplied.selected_repo_url

(* C24: an issue pinned by the caller is never overwritten: when Mentor is
   attempted on a state whose selected_issue_number is set (0 included), the
   Mentor agent is called with that number and the state keeps it. *)
C24_PinnedIssueKept ==
    [][(pc = "create_mentoring_plan" /\ Attempt
        /\ state.selected_issue_number # None) =>
           /\ log'[Len(log')].issue_arg = state.selected_issue_number
           /\ returned'.selected_issue_number = state.selected_issue_number
           /\ state'.selected_issue_number = state.selected_issue_number]_vars

(* C25: messages is an append-only log: after every stage attempt the
   messages before it are a prefix of the messages after it, and what
   follows that prefix is only the entry the stage added, so that no
   earlier entry occurs again. *)
C25_MessagesAppendOnly ==
    [][Attempt =>
          /\ Len(state'.messages) > Len(state.messages)
          /\ SubSeq(state'.messages, 1, Len(state.messages)) = state.messages
          /\ \A i \in (Len(state.messages) + 1)..Len(state'.messages) :
                state'.messages[i] = returned'.messages[Len(returned'.messages)]]_vars

(* C26: partial results survive later failures: in every step of a run, a
   field owned by a stage other than the one attempted keeps its value, a
   failed attempt changes no owned field at all, and the state returned by
   the run is the state left by its last stage. *)
C26_PartialResultsSurvive ==
    [][/\ Attempt =>
            /\ OwnedFrame(log'[Len(log')].stage, state, state')
            /\ log'[Len(log')].raised => OwnedFrame("", state, state')
       /\ pc = "END" => state' = state]_vars

C26_Witness ==
    /\ FullDone
    /\ ~log[1].raised /\ ~log[2].raised /\ log[3].raised /\ log[4].raised
    /\ state.repositories = <<RepoA, RepoB>>
    /\ state.contribution_guide # None
    /\ state.error # None

\* the stage attempts of the run that succeeded
SucceededAt == {i \in 1..Len(log) : ~log[i].raised}
LastSucceeded == CHOOSE i \in SucceededAt : \A j \in SucceededAt : j <= i

(* C28: in every state of a full run current_step is the completion label
   of the most recent stage that succeeded, "initializing" if none has; the
   stage that runs next is the one after the last attempted, whatever
   current_step says. *)
C28_CurrentStepIsLastSuccess ==
    (run.kind = "full" /\ pc # "raised") =>
        /\ state.current_step =
              IF SucceededAt = {} THEN "initializing"
              ELSE CompletionLabel(log[LastSucceeded].stage)
        /\ pc \in Stages => pc = StageNames[Len(log) + 1]

C28_Witness ==
    /\ run.kind = "full" /\ pc = "create_mentoring_plan"
    /\ ~log[1].raised /\ log[2].raised /\ log[3].raised
    /\ state.current_step = "repositories_found"

----------------------------------------------------------------------------
(* C29: in a full run served by /workflow/full the final error is null if
   and only if all four stage attempts succeeded, and the response's status
   is "completed" exactly when contribution_guide and mentoring_plan are
   both non-null and current_step is "plan_created". *)
C29_ErrorNullIffAllSucceeded ==
    \A r \in Requests :
        calls[r].pc \in {"END", "responded"} =>
            /\ Len(calls[r].outs) = 4
            /\ calls[r].state.error = None <=>
                  \A k \in 1..Len(calls[r].outs) : ~calls[r].outs[k].raised
            /\ calls[r].pc = "responded" =>
                  (Get(calls[r].response).status = "completed" <=>
                      /\ calls[r].state.contribution_guide # None
                      /\ calls[r].state.mentoring_plan # None
                      /\ calls[r].state.current_step = "plan_created")

C29_Witness ==
    /\ calls["request_1"].pc = "responded"
    /\ \A k \in 1..4 : ~calls["request_1"].outs[k].raised
    /\ Get(calls["request_1"].response).status = "completed"
    /\ calls["request_2"].pc = "responded"
    /\ calls["request_2"].outs[2].raised
    /\ ~calls["request_2"].outs[1].raised /\ ~calls["request_2"].outs[3].raised
    /\ calls["request_2"].state.current_step = "issues_matched"
    /\ Get(calls["request_2"].response).status = "error"

----------------------------------------------------------------------------
(* C27: provided every agent call eventually returns or raises, every full
   run and every partial run started from one of the four stage names
   eventually returns a state, after Mentor has been attempted. *)
C27_Termination ==
    (run.kind # "none" /\ run.start_node \in Stages)
        ~> (/\ pc = "done"
            /\ Len(log) > 0
            /\ log[Len(log)].stage = "create_mentoring_plan")

----------------------------------------------------------------------------
(* C30: POST /progress/track answers 404 "User profile not found" when no
   stored profile has the request's user_id, and answers 500 only for other
   faults. *)
C30_TrackProgressNotFound ==
    (track.pc = "responded" /\ track.queried) =>
        /\ track.db_profile = None =>
              /\ Get(track.response).status_code = 404
              /\ Get(track.response).detail = "User profile not found"
        /\ Get(track.response).status_code = 500 => track.db_profile # None

====
